---- MODULE Spec2Model ----
(***************************************************************************)
(* Model of app.py: a Streamlit script that fetches a TV guide, keeps the  *)
(* film programmes of this evening, resolves each title against TMDB       *)
(* through an SQLite cache, sorts by rating and renders a 4-column grid.   *)
(*                                                                         *)
(* Encoding.  A Python str is a sequence of one-character strings.  A      *)
(* value that may be None is a sequence of length 0 (None / key absent)    *)
(* or 1 (the value).  A rating is a number of tenths (65 is 6.5); the      *)
(* REAL column and Python's == both keep the numeric value of a JSON       *)
(* number, so the stored and the fetched rating are the same number.       *)
(* A datetime is a record [day, hour, minute, second, microsecond].        *)
(* The characters are the ASCII ones: a string of the module holds no      *)
(* other, so str.lower, str.strip and the regular expressions are modelled *)
(* on ASCII text.                                                          *)
(***************************************************************************)
EXTENDS Integers, Sequences, FiniteSets, TLC

VARIABLES
    db,         \* the file tmdb_cache.db: [exists, rows], rows of table movies
    calls,      \* the search_tmdb calls made so far, oldest first
    op,         \* the function that ran last
    pc,         \* position of the running script
    raw,        \* a raw title handed to clean_title
    cleaned,    \* clean_title(raw)
    recleaned,  \* clean_title(cleaned)
    epg,        \* the programme elements of the fetched guide, in document order
    start_hour, \* sidebar slider "Od godziny"
    min_rating, \* sidebar slider "Minimalny rating"
    today,      \* load_movies_from_epg: today
    evening,    \* load_movies_from_epg: evening
    idx,        \* load_movies_from_epg: index of the next programme of the loop
    movies,     \* load_movies_from_epg: movies, the list being appended to
    loaded,     \* main: the list load_movies_from_epg returned
    rendered,   \* main: the grid, a sequence of [col, movie]
    warning     \* main: st.warning was shown

vars == <<db, calls, op, pc, raw, cleaned, recleaned, epg, start_hour,
          min_rating, today, evening, idx, movies, loaded, rendered, warning>>

titleVars == <<raw, cleaned, recleaned>>
passVars == <<epg, start_hour, min_rating, today, evening, idx, movies,
              loaded, rendered, warning>>

\* Bounds of the model.
MaxLen == 4
MaxCalls == 3
MaxProgs == 2
MaxMovies == 6

None == <<>>
Some(x) == <<x>>

Min(S) == CHOOSE x \in S : \A y \in S : x <= y

(***************************************************************************)
(* str.lower and the regular expressions of clean_title                    *)
(***************************************************************************)
\* str.lower on one character: the 26 capital letters have a lower-case form,
\* every other ASCII character is its own.
LowerChar(c) ==
    CASE c = "A" -> "a" [] c = "B" -> "b" [] c = "C" -> "c" [] c = "D" -> "d"
      [] c = "E" -> "e" [] c = "F" -> "f" [] c = "G" -> "g" [] c = "H" -> "h"
      [] c = "I" -> "i" [] c = "J" -> "j" [] c = "K" -> "k" [] c = "L" -> "l"
      [] c = "M" -> "m" [] c = "N" -> "n" [] c = "O" -> "o" [] c = "P" -> "p"
      [] c = "Q" -> "q" [] c = "R" -> "r" [] c = "S" -> "s" [] c = "T" -> "t"
      [] c = "U" -> "u" [] c = "V" -> "v" [] c = "W" -> "w" [] c = "X" -> "x"
      [] c = "Y" -> "y" [] c = "Z" -> "z"
      [] OTHER -> c

Lower(s) == [k \in 1..Len(s) |-> LowerChar(s[k])]

IsDigit(c) == c \in {"0", "1", "2", "3", "4", "5", "6", "7", "8", "9"}

\* The ASCII characters str.strip() removes: space, tab, line feed, vertical
\* tab, form feed, carriage return and the separators 0x1c to 0x1f.
IsSpace(c) ==
    c \in {" ", "\t", "\n", "", "\f", "\r", "", "", "", ""}

\* The end of the match of \(.*?\) that starts at p, or 0: the nearest ")"
\* after p, with no line break in between (. does not match one).
ParenClose(s, p) ==
    LET ends == {q \in (p + 1)..Len(s) :
                    /\ s[q] = ")"
                    /\ \A k \in (p + 1)..(q - 1) : s[k] # "\n"}
    IN  IF s[p] = "(" /\ ends # {} THEN Min(ends) ELSE 0

\* re.sub(r"\(.*?\)", "", s), scanning from p: leftmost matches, left to right,
\* the scan resuming after each match.
RECURSIVE SubParens(_, _)
SubParens(s, p) ==
    IF p > Len(s) THEN <<>>
    ELSE IF ParenClose(s, p) # 0 THEN SubParens(s, ParenClose(s, p) + 1)
    ELSE <<s[p]>> \o SubParens(s, p + 1)

\* w matches s at p, ignoring case (re.IGNORECASE).
MatchesAt(s, p, w) ==
    /\ p + Len(w) - 1 <= Len(s)
    /\ \A k \in 1..Len(w) : LowerChar(s[p + k - 1]) = LowerChar(w[k])

\* Length of the match of HD|Premiera|TV|\d{4} at p, or 0; the alternatives are
\* tried in the order written.
MarkerLen(s, p) ==
    IF MatchesAt(s, p, <<"H", "D">>) THEN 2
    ELSE IF MatchesAt(s, p, <<"P", "r", "e", "m", "i", "e", "r", "a">>) THEN 8
    ELSE IF MatchesAt(s, p, <<"T", "V">>) THEN 2
    ELSE IF p + 3 <= Len(s) /\ \A k \in p..(p + 3) : IsDigit(s[k]) THEN 4
    ELSE 0

\* re.sub(r"HD|Premiera|TV|\d{4}", "", s, flags=re.IGNORECASE), scanning from p:
\* one pass, the text left of the scan is never looked at again.
RECURSIVE SubMarkers(_, _)
SubMarkers(s, p) ==
    IF p > Len(s) THEN <<>>
    ELSE IF MarkerLen(s, p) # 0 THEN SubMarkers(s, p + MarkerLen(s, p))
    ELSE <<s[p]>> \o SubMarkers(s, p + 1)

\* str.strip()
Strip(s) ==
    LET keep == {k \in 1..Len(s) : ~IsSpace(s[k])}
    IN  IF keep = {} THEN <<>>
        ELSE SubSeq(s, Min(keep), CHOOSE k \in keep : \A j \in keep : j <= k)

clean_title(title) == Strip(SubMarkers(SubParens(title, 1), 1))

(***************************************************************************)
(* The SQLite cache: table movies(title PRIMARY KEY, rating, poster,       *)
(* imdb_id) in the file tmdb_cache.db                                      *)
(***************************************************************************)
NoDb == [exists |-> FALSE, rows |-> {}]

\* CREATE TABLE IF NOT EXISTS: creates the empty table, or leaves it alone.
init_db(d) == IF d.exists THEN d ELSE [exists |-> TRUE, rows |-> {}]

\* SELECT rating, poster, imdb_id ... WHERE title=?, fetchone(), and the dict
\* built from the row; None when no row matches.
get_cached_movie(d, title) ==
    LET hit == {r \in d.rows : r.title = title}
    IN  IF hit = {} THEN None
        ELSE LET row == CHOOSE r \in hit : TRUE
             IN  Some([rating |-> row.rating, poster |-> row.poster,
                       imdb_id |-> row.imdb_id])

\* INSERT OR REPLACE: the row that holds the primary key is deleted, the new
\* row is inserted.
cache_movie(d, title, rating, poster, imdb_id) ==
    [d EXCEPT !.rows = {r \in @ : r.title # title} \cup
        {[title |-> title, rating |-> rating, poster |-> poster,
          imdb_id |-> imdb_id]}]

(***************************************************************************)
(* search_tmdb.  resp is what TMDB answers if asked: the status and the    *)
(* "results" list of the search request, and the JSON of the external_ids  *)
(* request.  A movie of the list has vote_average, poster_path and id,     *)
(* each None when the key is absent (poster_path and id also when null).   *)
(***************************************************************************)
PosterBase == "https://image.tmdb.org/t/p/w500"

\* Faulty variants: the title is used as the key as it is spelled.
LookupKeyExact(title) == title
StoreKeyExact(title) == title

\* The key of get_cached_movie(title.lower())
LookupKey(title) == Lower(title)

\* The key of cache_movie(title.lower(), ...)
StoreKey(title) == Lower(title)

\* The record built from the first result, and the requests made after the
\* search request. In Python None, "" and 0 are false: an empty poster_path
\* gives no poster, an id of 0 no external_ids request.
FirstResult(resp) ==
    LET movie == resp.results[1]
        rating == IF movie.vote_average = None THEN 0 ELSE movie.vote_average[1]
        poster == IF movie.poster_path # None /\ movie.poster_path[1] # ""
                  THEN <<PosterBase, movie.poster_path[1]>> ELSE None
        asked == movie.id # None /\ movie.id[1] # 0
    IN  [rating |-> rating, poster |-> poster,
         imdb_id |-> IF asked THEN resp.ext.imdb_id ELSE None,
         requests |-> IF asked THEN <<"external_ids">> ELSE <<>>]

\* A faulty variant: the cache is not consulted, every call asks TMDB and stores.
search_tmdb_refetch(d, title, resp) ==
    IF resp.status # 200 \/ resp.results = <<>>
    THEN [result |-> None, db |-> d, requests |-> <<"search">>, stored |-> None]
    ELSE LET m == FirstResult(resp)
             rec == [rating |-> m.rating, poster |-> m.poster, imdb_id |-> m.imdb_id]
         IN  [result |-> Some(rec),
              db |-> cache_movie(d, StoreKey(title), m.rating, m.poster, m.imdb_id),
              requests |-> <<"search">> \o m.requests,
              stored |-> Some([title |-> StoreKey(title), rating |-> m.rating,
                               poster |-> m.poster, imdb_id |-> m.imdb_id])]

\* A faulty variant: a failed search is asked once more and an empty answer is cached
\* as a movie of rating 0.
search_tmdb_negative(d, title, resp) ==
    LET cached == get_cached_movie(d, LookupKey(title))
    IN  IF cached # None
        THEN [result |-> cached, db |-> d, requests |-> <<>>, stored |-> None]
        ELSE IF resp.status # 200
        THEN [result |-> None, db |-> d, requests |-> <<"search", "search">>,
              stored |-> None]
        ELSE IF resp.results = <<>>
        THEN [result |-> None,
              db |-> cache_movie(d, StoreKey(title), 0, None, None),
              requests |-> <<"search">>,
              stored |-> Some([title |-> StoreKey(title), rating |-> 0,
                               poster |-> None, imdb_id |-> None])]
        ELSE search_tmdb_refetch(d, title, resp)

\* search_tmdb(title) on the cache d: what it returns, the cache afterwards, the
\* HTTP requests it made in order, and the row it handed to cache_movie.
search_tmdb(d, title, resp) ==
    LET cached == get_cached_movie(d, LookupKey(title))
    IN  IF cached # None
        THEN [result |-> cached, db |-> d, requests |-> <<>>, stored |-> None]
        ELSE IF resp.status # 200
        THEN [result |-> None, db |-> d, requests |-> <<"search">>, stored |-> None]
        ELSE IF resp.results = <<>>
        THEN [result |-> None, db |-> d, requests |-> <<"search">>, stored |-> None]
        ELSE LET m == FirstResult(resp)
                 rec == [rating |-> m.rating, poster |-> m.poster,
                         imdb_id |-> m.imdb_id]
             IN  [result |-> Some(rec),
                  db |-> cache_movie(d, StoreKey(title), m.rating, m.poster, m.imdb_id),
                  requests |-> <<"search">> \o m.requests,
                  stored |-> Some([title |-> StoreKey(title), rating |-> m.rating,
                                   poster |-> m.poster, imdb_id |-> m.imdb_id])]

\* The answers of TMDB the model draws from.
Movie(va, pp, id) == [vote_average |-> va, poster_path |-> pp, id |-> id]
Answer(status, results, imdb) ==
    [status |-> status, results |-> results, ext |-> [imdb_id |-> imdb]]

NoAnswer == Answer(0, <<>>, None)

Answers == {
    Answer(500, <<>>, None),
    Answer(200, <<>>, None),
    Answer(200, <<Movie(Some(80), Some("/a.jpg"), Some(7))>>, Some("tt7")),
    Answer(200, <<Movie(Some(65), Some(""), Some(8))>>, None),
    Answer(200, <<Movie(None, None, Some(0))>>, Some("tt0")),
    Answer(200, <<Movie(Some(60), Some("/b.jpg"), None),
                  Movie(Some(90), Some("/c.jpg"), Some(9))>>, Some("tt9"))
}

\* The entry of calls for one call: the answer is kept only if TMDB was asked.
CallEntry(prog, title, resp, out) ==
    [prog |-> prog, title |-> title,
     resp |-> IF out.requests = <<>> THEN NoAnswer ELSE resp,
     result |-> out.result, requests |-> out.requests, stored |-> out.stored]

(***************************************************************************)
(* SpecTitle: clean_title applied to a raw title, and to its own result    *)
(***************************************************************************)
TitleAlphabet == {"H", "d", "1", "(", ")", " ", "x"}

ExtraTitles == {
    <<"S", "k", "a", "z", "a", "n", "i", " ", "n", "a", " ", "S", "h", "a", "w",
      "s", "h", "a", "n", "k", " ", "(", "1", "9", "9", "4", ")", " ", "H", "D">>,
    <<"P", "r", "e", "m", "i", "e", "r", "a", " ", "x">>,
    <<"x", " ", "T", "V">>,
    <<"x", "(", "a", "\n", "b", ")">>,
    <<"\f", "K", "i", "n", "o", " ", "H", "D", "\r">>
}

RawTitles == UNION {[1..n -> TitleAlphabet] : n \in 0..MaxLen} \cup ExtraTitles

IdlePass ==
    /\ epg = <<>> /\ start_hour = 18 /\ min_rating = 65 /\ today = 0
    /\ evening = [day |-> 0, hour |-> 0, minute |-> 0, second |-> 0,
                  microsecond |-> 0]
    /\ idx = 0 /\ movies = <<>> /\ loaded = <<>> /\ rendered = <<>>
    /\ warning = FALSE

InitTitle ==
    /\ raw \in RawTitles /\ cleaned = <<>> /\ recleaned = <<>>
    /\ pc = "raw" /\ op = "none" /\ db = NoDb /\ calls = <<>>
    /\ IdlePass

CleanOnce ==
    /\ pc = "raw"
    /\ cleaned' = clean_title(raw)
    /\ pc' = "cleaned"
    /\ UNCHANGED <<db, calls, op, raw, recleaned, passVars>>

CleanAgain ==
    /\ pc = "cleaned"
    /\ recleaned' = clean_title(cleaned)
    /\ pc' = "recleaned"
    /\ UNCHANGED <<db, calls, op, raw, cleaned, passVars>>

NextTitle == CleanOnce \/ CleanAgain

SpecTitle == InitTitle /\ [][NextTitle]_vars

\* C4: clean_title is idempotent, clean_title(clean_title(s)) = clean_title(s)
\* for every raw title s.
C4_CleanTitleIsIdempotent == pc = "recleaned" => recleaned = cleaned

(***************************************************************************)
(* SpecCache: init_db and search_tmdb called in any order on one store     *)
(***************************************************************************)
CallTitles == {<<"X">>, <<"x">>, <<"K", "Z">>}

InitCache ==
    /\ db = NoDb /\ calls = <<>> /\ op = "none" /\ pc = "idle"
    /\ raw = <<>> /\ cleaned = <<>> /\ recleaned = <<>>
    /\ IdlePass

InitDbCall ==
    /\ db' = init_db(db)
    /\ op' = "init_db"
    /\ UNCHANGED <<calls, pc, titleVars, passVars>>

\* search_tmdb needs the table: without it the SELECT raises.
TmdbCall ==
    /\ db.exists
    /\ Len(calls) < MaxCalls
    /\ \E title \in CallTitles, resp \in Answers :
          LET out == search_tmdb(db, title, resp)
          IN  /\ db' = out.db
              /\ calls' = Append(calls, CallEntry(0, title, resp, out))
    /\ op' = "search_tmdb"
    /\ UNCHANGED <<pc, titleVars, passVars>>

NextCache == InitDbCall \/ TmdbCall

SpecCache == InitCache /\ [][NextCache]_vars

LastCall == calls[Len(calls)]

\* The call that has just been made, in a step that made one.
NewCall == calls'[Len(calls')]
Called == Len(calls') = Len(calls) + 1

InCache(d, key) == \E r \in d.rows : r.title = key

\* C1: once search_tmdb(t) has returned a record, every later search_tmdb(t')
\* with t'.lower() == t.lower() returns the same rating, poster and imdb_id and
\* makes no HTTP request, whatever calls came in between.
C1_RepeatedLookupIsServedFromCache ==
    \A i, j \in 1..Len(calls) :
        (/\ i < j
         /\ calls[i].result # None
         /\ Lower(calls[j].title) = Lower(calls[i].title))
        => /\ calls[j].result = calls[i].result
           /\ calls[j].requests = <<>>

\* A record fetched from TMDB for one spelling, a call for another key that
\* stored too, then a hit for a different spelling of the first title.
C1_Witness ==
    \E i, j, k \in 1..Len(calls) :
        /\ i < k /\ k < j
        /\ calls[i].requests = <<"search", "external_ids">>
        /\ calls[k].stored # None
        /\ Lower(calls[k].title) # Lower(calls[i].title)
        /\ calls[j].title # calls[i].title
        /\ Lower(calls[j].title) = Lower(calls[i].title)
        /\ calls[j].result = calls[i].result

\* C5, the store: at most one row per key, every key the lowercase form of a
\* title passed to search_tmdb, and the row under a key the one handed to the
\* most recent cache_movie call for that key.
C5_Rows ==
    /\ \A r1, r2 \in db.rows : r1.title = r2.title => r1 = r2
    /\ \A r \in db.rows :
          /\ \E i \in 1..Len(calls) : r.title = Lower(calls[i].title)
          /\ LET w == {i \in 1..Len(calls) :
                          calls[i].stored # None /\ calls[i].stored[1].title = r.title}
             IN  /\ w # {}
                 /\ calls[CHOOSE i \in w : \A k \in w : k <= i].stored[1] = r

\* C5: after any sequence of search_tmdb calls the store is as C5_Rows says, and
\* init_db run on an existing store changes no record.
C5_OneRowPerLowercaseKey ==
    /\ []C5_Rows
    /\ [][(op' = "init_db" /\ db.exists) => db' = db]_vars

\* init_db has just run on a store that holds a row whose key differs from the
\* title that was passed.
C5_Witness ==
    /\ op = "init_db"
    /\ \E i \in 1..Len(calls) :
          /\ calls[i].stored # None
          /\ calls[i].stored[1].title # calls[i].title
          /\ calls[i].stored[1] \in db.rows
    /\ Cardinality(db.rows) >= 2

\* C6: on a cache miss, a non-200 status or an empty results list makes
\* search_tmdb return None after the one search request (no external_ids
\* request, no retry) and leaves the cache as it was.
C6_FailedSearchLeavesCache ==
    [][(/\ Called
        /\ ~InCache(db, Lower(NewCall.title))
        /\ (NewCall.resp.status # 200 \/ NewCall.resp.results = <<>>))
       => /\ NewCall.result = None
          /\ NewCall.requests = <<"search">>
          /\ db' = db]_vars

\* Both failures have happened on a store that already held a row.
C6_Witness ==
    \E i, j, k \in 1..Len(calls) :
        /\ i < j /\ i < k
        /\ calls[i].stored # None
        /\ calls[j].requests = <<"search">> /\ calls[j].resp.status = 500
        /\ calls[k].requests = <<"search">> /\ calls[k].resp.status = 200
        /\ calls[k].resp.results = <<>>
        /\ calls[j].result = None /\ calls[k].result = None

\* C10: no search_tmdb call removes or changes a stored row; cache_movie is
\* called only for a key absent when the call began; the keys only grow.
C10_StoredRowsAreNeverChanged ==
    [][Called =>
        /\ db.rows \subseteq db'.rows
        /\ {r.title : r \in db.rows} \subseteq {r.title : r \in db'.rows}
        /\ NewCall.stored # None => ~InCache(db, NewCall.stored[1].title)]_vars

\* A stored key was looked up again while TMDB would have answered with another
\* movie, and the row is still the first one.
C10_Witness ==
    /\ Len(calls) >= 3
    /\ calls[1].stored # None
    /\ calls[2].stored # None
    /\ LastCall.requests = <<>>
    /\ Lower(LastCall.title) = Lower(calls[1].title)
    /\ calls[1].stored[1] \in db.rows
    /\ Cardinality(db.rows) = 2

(***************************************************************************)
(* load_movies_from_epg and main                                           *)
(***************************************************************************)
\* a < b on datetimes
Before(a, b) ==
    LET ka == <<a.day, a.hour, a.minute, a.second, a.microsecond>>
        kb == <<b.day, b.hour, b.minute, b.second, b.microsecond>>
    IN  \E k \in 1..5 : ka[k] < kb[k] /\ \A j \in 1..(k - 1) : ka[j] = kb[j]

\* parse_time: strptime of the first 14 characters of the start attribute,
\* YYYYMMDDHHMMSS; the zone that follows them is dropped and the result has
\* no microseconds.
parse_time(t) ==
    [day |-> t.day, hour |-> t.hour, minute |-> t.minute, second |-> t.second,
     microsecond |-> 0]

\* datetime.now().replace(hour=start_hour, minute=0, second=0): the
\* microsecond of the clock is kept.
EveningOf(now, h) == [now EXCEPT !.hour = h, !.minute = 0, !.second = 0]

\* sub in s
Contains(s, sub) ==
    \E p \in 1..(Len(s) - Len(sub) + 1) : SubSeq(s, p, p + Len(sub) - 1) = sub

\* A faulty variant: the category is not looked at.
IsFilmAny(category) == TRUE

\* "film" in category.text.lower()
IsFilm(category) == Contains(Lower(category), <<"f", "i", "l", "m">>)

\* The three tests of the loop that do not `continue`.
Selected(p, day, eve) ==
    /\ p.title # None
    /\ p.category # None /\ IsFilm(p.category[1])
    /\ parse_time(p.start).day = day /\ ~Before(parse_time(p.start), eve)

\* start.strftime("%H:%M")
FormatTime(t) == <<t.hour, t.minute>>

\* A faulty variant: a programme without metadata ends the loop.
LoopBodyBreak(d, guide, i, day, eve, resp) ==
    LET p == guide[i]
        title == clean_title(p.title[1])
        out == search_tmdb(d, title, resp)
    IN  IF ~Selected(p, day, eve)
        THEN [db |-> d, calls |-> <<>>, append |-> <<>>, next |-> i + 1]
        ELSE IF out.result = None
        THEN [db |-> out.db, calls |-> <<CallEntry(i, title, resp, out)>>,
              append |-> <<>>, next |-> Len(guide) + 1]
        ELSE [db |-> out.db, calls |-> <<CallEntry(i, title, resp, out)>>,
              append |-> <<[title |-> title,
                            time |-> FormatTime(parse_time(p.start)),
                            channel |-> p.channel,
                            rating |-> out.result[1].rating,
                            poster |-> out.result[1].poster,
                            imdb_id |-> out.result[1].imdb_id]>>,
              next |-> i + 1]

\* One iteration of the loop, on programme i of the guide: the cache after it,
\* the search_tmdb call it made, the entry it appended, the next index.
LoopBody(d, guide, i, day, eve, resp) ==
    LET p == guide[i]
        title == clean_title(p.title[1])
        out == search_tmdb(d, title, resp)
    IN  IF ~Selected(p, day, eve)
        THEN [db |-> d, calls |-> <<>>, append |-> <<>>, next |-> i + 1]
        ELSE IF out.result = None
        THEN [db |-> out.db, calls |-> <<CallEntry(i, title, resp, out)>>,
              append |-> <<>>, next |-> i + 1]
        ELSE [db |-> out.db, calls |-> <<CallEntry(i, title, resp, out)>>,
              append |-> <<[title |-> title,
                            time |-> FormatTime(parse_time(p.start)),
                            channel |-> p.channel,
                            rating |-> out.result[1].rating,
                            poster |-> out.result[1].poster,
                            imdb_id |-> out.result[1].imdb_id]>>,
              next |-> i + 1]

\* A faulty variant: lowest rating first.
InsertAscending(ms, m) ==
    LET k == Cardinality({j \in 1..Len(ms) : ms[j].rating <= m.rating})
    IN  SubSeq(ms, 1, k) \o <<m>> \o SubSeq(ms, k + 1, Len(ms))

\* The place of m in a list sorted by rating, highest first: behind every
\* entry whose rating is not lower (sorted is stable, also with reverse=True).
InsertByRating(ms, m) ==
    LET k == Cardinality({j \in 1..Len(ms) : ms[j].rating >= m.rating})
    IN  SubSeq(ms, 1, k) \o <<m>> \o SubSeq(ms, k + 1, Len(ms))

\* sorted(movies, key=lambda x: x["rating"], reverse=True)
RECURSIVE SortByRating(_)
SortByRating(ms) ==
    IF ms = <<>> THEN <<>>
    ELSE InsertByRating(SortByRating(SubSeq(ms, 1, Len(ms) - 1)), ms[Len(ms)])

\* A faulty variant: a rating equal to the threshold is dropped.
RatingFilterStrict(ms, least) == SelectSeq(ms, LAMBDA m : m.rating > least)

\* [m for m in movies if m["rating"] >= min_rating]
RatingFilter(ms, least) == SelectSeq(ms, LAMBDA m : m.rating >= least)

\* st.columns(4)
NumColumns == 4

\* The grid: movie i (from 0) goes to cols[i % 4].
Grid(ms) == [k \in 1..Len(ms) |-> [col |-> (k - 1) % NumColumns, movie |-> ms[k]]]

(***************************************************************************)
(* Spec: one run of the script by Streamlit                                *)
(***************************************************************************)
Film == <<"F", "i", "l", "m">>
Serial == <<"S", "e", "r", "i", "a", "l">>
TitleX == <<"X">>
TitleY == <<"y", " ", "(", "1", ")", " ", "H", "D">>

Prog(title, category, day, hour, minute, channel) ==
    [title |-> title, category |-> category, channel |-> channel,
     start |-> [day |-> day, hour |-> hour, minute |-> minute, second |-> 0,
                zone |-> "+0100"]]

\* The programme elements the guides of the model are made of: title is the
\* text of the title element, category the text of the first category
\* element, each None when the element is missing.
Programmes == {
    Prog(Some(TitleX), Some(Film), 1, 17, 59, "TVP1"),
    Prog(Some(TitleX), Some(Film), 1, 18, 0, "TVP1"),
    Prog(Some(TitleY), Some(Film), 1, 18, 0, "Polsat"),
    Prog(Some(TitleY), Some(Film), 1, 18, 30, "TVP1"),
    Prog(None, Some(Film), 1, 18, 0, "TVP1"),
    Prog(Some(TitleX), None, 1, 18, 0, "TVP1"),
    Prog(Some(TitleX), Some(Serial), 1, 18, 0, "TVP1"),
    Prog(Some(TitleY), Some(Film), 2, 18, 0, "TVP1")
}

Guides == UNION {[1..n -> Programmes] : n \in 0..MaxProgs}

Instant(day, hour, minute, second, microsecond) ==
    [day |-> day, hour |-> hour, minute |-> minute, second |-> second,
     microsecond |-> microsecond]

\* The values datetime.now() takes in the model.
Clock == {Instant(1, 12, 0, 0, 0), Instant(1, 12, 0, 0, 500000),
          Instant(2, 0, 0, 0, 0)}

\* Values of the two sliders.
StartHours == {17, 18}
MinRatings == {65, 85}

\* The store a run of the script finds: none (the first run), or the one
\* earlier runs left, here after they looked up TitleX.
Stores == {NoDb,
           search_tmdb(init_db(NoDb), TitleX,
               Answer(200, <<Movie(Some(70), Some("/x.jpg"), Some(5))>>,
                      Some("tt5"))).db}

Init ==
    /\ db \in Stores /\ calls = <<>> /\ op = "none" /\ pc = "idle"
    /\ raw = <<>> /\ cleaned = <<>> /\ recleaned = <<>>
    /\ IdlePass

\* main down to the loop of load_movies_from_epg: init_db, the sliders, the
\* guide fetched and parsed, the clock read twice.
BeginPass ==
    /\ pc = "idle"
    /\ db' = init_db(db)
    /\ \E least \in MinRatings, hour \in StartHours, guide \in Guides,
          now1 \in Clock, now2 \in Clock :
          /\ ~Before(now2, now1)
          /\ min_rating' = least
          /\ start_hour' = hour
          /\ epg' = guide
          /\ today' = now1.day
          /\ evening' = EveningOf(now2, hour)
    /\ idx' = 1 /\ movies' = <<>> /\ calls' = <<>>
    /\ loaded' = <<>> /\ rendered' = <<>> /\ warning' = FALSE
    /\ pc' = "loop" /\ op' = "init_db"
    /\ UNCHANGED titleVars

\* One iteration of the loop over the programme elements.
LoopStep ==
    /\ pc = "loop" /\ idx <= Len(epg)
    /\ \E resp \in Answers :
          LET it == LoopBody(db, epg, idx, today, evening, resp)
          IN  /\ db' = it.db
              /\ calls' = calls \o it.calls
              /\ movies' = movies \o it.append
              /\ idx' = it.next
    /\ op' = "load_movies_from_epg"
    /\ UNCHANGED <<pc, titleVars, epg, start_hour, min_rating, today, evening,
                   loaded, rendered, warning>>

\* The loop is over: load_movies_from_epg returns the sorted list, main
\* filters it by min_rating and shows the warning or fills the grid.
EndPass ==
    /\ pc = "loop" /\ idx > Len(epg)
    /\ loaded' = SortByRating(movies)
    /\ LET shown == RatingFilter(SortByRating(movies), min_rating)
       IN  /\ warning' = (shown = <<>>)
           /\ rendered' = Grid(shown)
    /\ pc' = "done" /\ op' = "main"
    /\ UNCHANGED <<db, calls, titleVars, epg, start_hour, min_rating, today,
                   evening, idx, movies>>

Next == BeginPass \/ LoopStep \/ EndPass

Spec == Init /\ [][Next]_vars

\* The calls of the pass made for programme i of the guide.
CallsFor(i) == {k \in 1..Len(calls) : calls[k].prog = i}

\* Entry m of a list is the one programme p gives rise to.
EntryOf(m, p) ==
    /\ p.title # None
    /\ m.title = clean_title(p.title[1])
    /\ m.time = <<p.start.hour, p.start.minute>>
    /\ m.channel = p.channel

\* Programme p has a title element, a category with "film" in it and starts
\* on the current date.
FilmOfToday(p) ==
    /\ p.title # None
    /\ p.category # None
    /\ Contains(Lower(p.category[1]), <<"f", "i", "l", "m">>)
    /\ p.start.day = today

\* C2: of the film programmes of today, one that starts at (H-1):59 is left
\* out, and one that starts at H:00:00 is looked up and, if TMDB knows it, is
\* in the result, whatever the clock read when the pass began.
C2_ThresholdMinuteIsIncluded ==
    pc = "done" =>
        \A i \in 1..Len(epg) :
            FilmOfToday(epg[i]) =>
                /\ (epg[i].start.hour = start_hour - 1 /\ epg[i].start.minute = 59)
                   => CallsFor(i) = {}
                /\ (/\ epg[i].start.hour = start_hour
                    /\ epg[i].start.minute = 0
                    /\ epg[i].start.second = 0)
                   => \E k \in CallsFor(i) :
                         calls[k].result # None
                         => \E j \in 1..Len(loaded) : EntryOf(loaded[j], epg[i])

\* C3: every entry of the returned list comes from a programme with a title
\* element, a category containing "film", the current date and a start not
\* before start_hour:00; a programme failing one of these is never looked up
\* (and so never appended).
C3_OnlyEveningFilmsAreListed ==
    LET Qualifies(p) == FilmOfToday(p) /\ p.start.hour >= start_hour
    IN  /\ \A k \in 1..Len(calls) : Qualifies(epg[calls[k].prog])
        /\ \A j \in 1..Len(movies) :
              \E i \in 1..Len(epg) : Qualifies(epg[i]) /\ EntryOf(movies[j], epg[i])
        /\ \A j \in 1..Len(loaded) :
              \E i \in 1..Len(epg) : Qualifies(epg[i]) /\ EntryOf(loaded[j], epg[i])

\* A pass that listed a film while the guide also held a film of today that
\* starts before the hour, or a programme that is no film.
C3_Witness ==
    /\ pc = "done" /\ Len(loaded) = 1
    /\ \E i \in 1..Len(epg) :
          /\ CallsFor(i) = {}
          /\ \/ FilmOfToday(epg[i]) /\ epg[i].start.hour < start_hour
             \/ epg[i].title # None /\ epg[i].category = Some(Serial)

\* C7: a selected programme whose lookup returns None adds no entry and does
\* not end the pass: every selected programme is looked up once, and the
\* result has one entry for each lookup that succeeded, and no other.
C7_FailedLookupSkipsOnlyThatProgramme ==
    pc = "done" =>
        /\ \A i \in 1..Len(epg) :
              Selected(epg[i], today, evening) => Cardinality(CallsFor(i)) = 1
        /\ Len(loaded) =
              Cardinality({k \in 1..Len(calls) : calls[k].result # None})
        /\ \A k \in 1..Len(calls) :
              calls[k].result # None
              => \E j \in 1..Len(loaded) :
                    /\ EntryOf(loaded[j], epg[calls[k].prog])
                    /\ loaded[j].rating = calls[k].result[1].rating
                    /\ loaded[j].poster = calls[k].result[1].poster
                    /\ loaded[j].imdb_id = calls[k].result[1].imdb_id

\* The first selected programme had no metadata, the one after it had.
C7_Witness ==
    /\ pc = "done" /\ Len(calls) = 2 /\ Len(loaded) = 1
    /\ calls[1].result = None /\ calls[1].prog = 1
    /\ calls[2].result # None /\ calls[2].prog = 2

NonIncreasing(ratings) ==
    \A k \in 1..(Len(ratings) - 1) : ratings[k] >= ratings[k + 1]

\* C8: the returned list is in non-increasing order of rating, and the
\* rendered list is a sublist of it in the same order.
C8_SortedByRatingDescending ==
    pc = "done" =>
        /\ NonIncreasing([k \in 1..Len(loaded) |-> loaded[k].rating])
        /\ NonIncreasing([k \in 1..Len(rendered) |-> rendered[k].movie.rating])
        /\ \E f \in [1..Len(rendered) -> 1..Len(loaded)] :
              /\ \A k \in 1..(Len(rendered) - 1) : f[k] < f[k + 1]
              /\ \A k \in 1..Len(rendered) : rendered[k].movie = loaded[f[k]]

\* The loop appended a lower rating before a higher one and both are rendered.
C8_Witness ==
    /\ pc = "done" /\ Len(movies) = 2 /\ Len(rendered) = 2
    /\ movies[1].rating < movies[2].rating
    /\ loaded = <<movies[2], movies[1]>>

(***************************************************************************)
(* SpecRender: the end of main on a list load_movies_from_epg returned     *)
(***************************************************************************)
Entry(title, hour, channel, rating, poster, imdb) ==
    [title |-> title, time |-> <<hour, 0>>, channel |-> channel,
     rating |-> rating, poster |-> poster, imdb_id |-> imdb]

Entries == {
    Entry(<<"X">>, 18, "TVP1", 80, Some(<<PosterBase, "/a.jpg">>), Some("tt7")),
    Entry(<<"y">>, 20, "Polsat", 65, None, None),
    Entry(<<"z">>, 21, "TVP1", 60, Some(<<PosterBase, "/b.jpg">>), None)
}

\* The lists load_movies_from_epg can return: sorted, highest rating first.
SortedLists ==
    UNION {{ms \in [1..n -> Entries] : SortByRating(ms) = ms} : n \in 0..MaxMovies}

\* The slider: 0.0 to 10.0 in steps of 0.5.
SliderRatings == {5 * k : k \in 0..20}

InitRender ==
    /\ loaded \in SortedLists /\ movies = loaded
    /\ epg = <<>> /\ start_hour = 18 /\ min_rating = 65 /\ today = 0
    /\ evening = Instant(0, 0, 0, 0, 0) /\ idx = 0
    /\ rendered = <<>> /\ warning = FALSE
    /\ pc = "loaded" /\ op = "load_movies_from_epg"
    /\ db = init_db(NoDb) /\ calls = <<>>
    /\ raw = <<>> /\ cleaned = <<>> /\ recleaned = <<>>

\* main from the filter on, for a value of the slider.
RenderList ==
    /\ pc = "loaded"
    /\ \E least \in SliderRatings :
          /\ min_rating' = least
          /\ warning' = (RatingFilter(loaded, least) = <<>>)
          /\ rendered' = Grid(RatingFilter(loaded, least))
    /\ pc' = "done" /\ op' = "main"
    /\ UNCHANGED <<db, calls, titleVars, epg, start_hour, today, evening, idx,
                   movies, loaded>>

NextRender == RenderList

SpecRender == InitRender /\ [][NextRender]_vars

\* C9: the rendered movies are the entries of the loaded list with rating >=
\* min_rating, all of them and no other, in the order of the list; if there
\* is none the warning is shown and the grid is empty; the i-th rendered
\* movie (from 0) is in column i mod 4.
C9_RenderedAreThoseAtLeastMinRating ==
    pc = "done" =>
        LET keep == {i \in 1..Len(loaded) : loaded[i].rating >= min_rating}
            Nth(k) == CHOOSE i \in keep :
                          Cardinality({j \in keep : j <= i}) = k
        IN  /\ Len(rendered) = Cardinality(keep)
            /\ \A k \in 1..Len(rendered) :
                  /\ rendered[k].movie = loaded[Nth(k)]
                  /\ rendered[k].col = (k - 1) % 4
            /\ warning = (keep = {})

\* Five movies rendered, the fifth in the first column again, and entries of
\* the list below and at the threshold.
C9_Witness ==
    /\ pc = "done" /\ Len(rendered) = 5 /\ Len(loaded) > 5
    /\ rendered[5].col = 0
    /\ rendered[5].movie.rating = min_rating
    /\ ~warning

====
